---- MODULE Spec2Model ----
(***************************************************************************)
(* Model of symetrix-control: the Composer Control Protocol client of      *)
(* src/symetrix.js (class Symetrix) and the command table / command        *)
(* builder of api.js.  Text is modelled at character level (a string is a  *)
(* sequence of one-character strings) so that the regular expressions of   *)
(* the command table are computed, not assumed.                            *)
(***************************************************************************)
EXTENDS Integers, Sequences, FiniteSets, TLC

(***************************************************************************)
(* Bounds of the model.                                                    *)
(***************************************************************************)
\* number of commands submitted through reqToSend in one run
MaxSubmit == 3
\* number of times the socket closes in one run
MaxCloses == 1
\* number of calls in one run of the specification of the replies
MaxCalls == 2

(***************************************************************************)
(* Characters and strings.                                                 *)
(***************************************************************************)
Digits == {"0", "1", "2", "3", "4", "5", "6", "7", "8", "9"}

\* the characters \s matches among those that occur on the wire
IsSpace(c) == c \in {" ", "\t", "\n", "\r"}

\* the characters . does not match
IsLineTerminator(c) == c \in {"\n", "\r"}

\* the character at 1-based position i, "" past the end
At(d, i) == IF i >= 1 /\ i <= Len(d) THEN d[i] ELSE ""

\* d.slice(from) with a 0-based index
SliceFrom(d, from) == SubSeq(d, from + 1, Len(d))

\* d.slice(0, to) with a 0-based exclusive end, which stops at the end of d
SliceTo(d, to) == SubSeq(d, 1, IF to > Len(d) THEN Len(d) ELSE to)

\* d.indexOf(c): 0-based index of the first c, -1 for none
IndexOf(d, c) ==
    LET at == {i \in 1..Len(d) : d[i] = c}
    IN  IF at = {} THEN -1 ELSE (CHOOSE i \in at : \A j \in at : i <= j) - 1

\* does the literal lit occur in d at 1-based position i
HasAt(d, i, lit) ==
    /\ i + Len(lit) - 1 <= Len(d)
    /\ \A k \in 1..Len(lit) : d[i + k - 1] = lit[k]

\* length of the longest run of digits of d that starts at position i
RECURSIVE DigitRun(_, _)
DigitRun(d, i) == IF At(d, i) \in Digits THEN 1 + DigitRun(d, i + 1) ELSE 0

\* length of the longest run of characters matched by . that starts at i
RECURSIVE DotRun(_, _)
DotRun(d, i) ==
    IF i > Len(d) \/ IsLineTerminator(At(d, i)) THEN 0 ELSE 1 + DotRun(d, i + 1)

\* Number("00042") of a sequence of digits
RECURSIVE ToNumber(_)
ToNumber(ds) ==
    IF ds = <<>> THEN 0
    ELSE LET last == ds[Len(ds)]
             v == CHOOSE n \in 0..9 : ToString(n) = last
         IN  10 * ToNumber(SubSeq(ds, 1, Len(ds) - 1)) + v

(***************************************************************************)
(* The respRegex patterns of the command table, by name.  MatchAt gives    *)
(* the result of matching one pattern at one position: whether it matches  *)
(* there and the named groups ret, ack, nak (<<>> for a group that is      *)
(* undefined or empty: _parseSingle only tests them for truthiness).       *)
(***************************************************************************)
NoMatch == [ok |-> FALSE, ret |-> <<>>, ack |-> <<>>, nak |-> <<>>]

Matched(ret, ack, nak) == [ok |-> TRUE, ret |-> ret, ack |-> ack, nak |-> nak]

sACK == <<"A", "C", "K">>
sNAK == <<"N", "A", "K">>
sGSB3 == <<"G", "S", "B", "3">>
sGSYSS == <<"G", "S", "Y", "S", "S", " ">>

\* /(?<ack>ACK)|(?<nak>NAK)\s/
MatchAckNak(d, i) ==
    IF HasAt(d, i, sACK) THEN Matched(<<>>, sACK, <<>>)
    ELSE IF HasAt(d, i, sNAK) /\ IsSpace(At(d, i + 3)) THEN Matched(<<>>, <<>>, sNAK)
    ELSE NoMatch

\* /\d{1,5} (?<ret>\d{1,5})/
MatchScalar(d, i) ==
    LET n == DigitRun(d, i)
        m == DigitRun(d, i + n + 1)
    IN  IF n >= 1 /\ n <= 5 /\ At(d, i + n) = " " /\ m >= 1
        THEN Matched(SubSeq(d, i + n + 1, i + n + (IF m > 5 THEN 5 ELSE m)), <<>>, <<>>)
        ELSE NoMatch

\* /GSB3 \d{5} \d{5}/
MatchBlock(d, i) ==
    IF /\ HasAt(d, i, sGSB3 \o <<" ">>)
       /\ DigitRun(d, i + 5) >= 5
       /\ At(d, i + 10) = " "
       /\ DigitRun(d, i + 11) >= 5
    THEN Matched(<<>>, <<>>, <<>>)
    ELSE NoMatch

\* /(?<ret>\d+)/
MatchDigits(d, i) ==
    LET n == DigitRun(d, i)
    IN  IF n >= 1 THEN Matched(SubSeq(d, i, i + n - 1), <<>>, <<>>) ELSE NoMatch

\* /GSYSS (?<ret>.*)\s/ : .* is greedy and gives back until \s follows
MatchSysString(d, i) ==
    LET j == i + 6
        run == DotRun(d, j)
        ends == {k \in 0..run : IsSpace(At(d, j + k))}
    IN  IF HasAt(d, i, sGSYSS) /\ ends # {}
        THEN LET k == CHOOSE k \in ends : \A e \in ends : e <= k
             IN  Matched(SubSeq(d, j, j + k - 1), <<>>, <<>>)
        ELSE NoMatch

\* /(?<ack>ACK)|(?<ret>\d{5})]/
MatchPushEnabled(d, i) ==
    IF HasAt(d, i, sACK) THEN Matched(<<>>, sACK, <<>>)
    ELSE IF DigitRun(d, i) >= 5 /\ At(d, i + 5) = "]"
         THEN Matched(SubSeq(d, i, i + 4), <<>>, <<>>)
    ELSE NoMatch

\* /(?<ack>.*)/ : matches at every position, possibly the empty string
MatchAny(d, i) == Matched(<<>>, SubSeq(d, i, i + DotRun(d, i) - 1), <<>>)

MatchAt(regex, d, i) ==
    CASE regex = "acknak"      -> MatchAckNak(d, i)
      [] regex = "scalar"      -> MatchScalar(d, i)
      [] regex = "block"       -> MatchBlock(d, i)
      [] regex = "digits"      -> MatchDigits(d, i)
      [] regex = "sysstring"   -> MatchSysString(d, i)
      [] regex = "pushenabled" -> MatchPushEnabled(d, i)
      [] regex = "any"         -> MatchAny(d, i)
      [] OTHER                 -> NoMatch

\* the first 1-based position from i on at which regex matches (the empty
\* match behind the last character included), 0 for none
RECURSIVE MatchFrom(_, _, _)
MatchFrom(regex, d, i) ==
    IF i > Len(d) + 1 THEN 0
    ELSE IF MatchAt(regex, d, i).ok THEN i
    ELSE MatchFrom(regex, d, i + 1)

\* String.prototype.search: 0-based index of the first match, -1 for none
Search(d, regex) == MatchFrom(regex, d, 1) - 1

\* String.prototype.match with a non-global pattern: the first match
Match(d, regex) == MatchAt(regex, d, Search(d, regex) + 1)

(***************************************************************************)
(* Values handed to completion handlers and push listeners.                *)
(***************************************************************************)
Undefined == "undefined"

ValUndefined == [t |-> "undefined", s |-> <<>>, l |-> <<>>]
ValString(str) == [t |-> "string", s |-> str, l |-> <<>>]
ValBool(b) == [t |-> IF b THEN "true" ELSE "false", s |-> <<>>, l |-> <<>>]
ValList(list) == [t |-> "list", s |-> <<>>, l |-> list]

\* /#(?<id>\d{5})=(?<ret>\d{5})/ at 1-based position i
RecordAt(d, i) ==
    /\ At(d, i) = "#"
    /\ DigitRun(d, i + 1) >= 5
    /\ At(d, i + 6) = "="
    /\ DigitRun(d, i + 7) >= 5

\* _parseMultiple: every record of data, in order (a match holds one '#',
\* its first character, so no two matches overlap)
RECURSIVE ParseFrom(_, _)
ParseFrom(d, i) ==
    IF i > Len(d) THEN <<>>
    ELSE IF RecordAt(d, i)
         THEN <<[id |-> ToNumber(SubSeq(d, i + 1, i + 5)),
                 value |-> ToNumber(SubSeq(d, i + 7, i + 11))]>> \o ParseFrom(d, i + 12)
         ELSE ParseFrom(d, i + 1)

\* ParseMultiple stopping at the first record (match in place of matchAll)
ParseMultipleFirst(data) ==
    IF ParseFrom(data, 1) = <<>> THEN <<>> ELSE <<Head(ParseFrom(data, 1))>>

\* ParseMultiple listing the records last to first (unshift in place of push)
ParseMultipleReversed(data) ==
    [i \in 1..Len(ParseFrom(data, 1)) |->
        ParseFrom(data, 1)[Len(ParseFrom(data, 1)) + 1 - i]]

ParseMultiple(data) == ParseFrom(data, 1)

\* ParseSingle taking a negative acknowledgement for an acknowledgement
ParseSingleNakTrue(data, regex) ==
    LET m == Match(data, regex)
    IN  IF m.ret # <<>> THEN ValString(m.ret)
        ELSE IF m.ack # <<>> \/ m.nak # <<>> THEN ValBool(TRUE)
        ELSE ValUndefined

\* _parseSingle: ret, else true for ack, else false for nak, else undefined
ParseSingle(data, regex) ==
    LET m == Match(data, regex)
    IN  IF m.ret # <<>> THEN ValString(m.ret)
        ELSE IF m.ack # <<>> THEN ValBool(TRUE)
        ELSE IF m.nak # <<>> THEN ValBool(FALSE)
        ELSE ValUndefined

(***************************************************************************)
(* api.js: the command table and buildCommandString.  A command string is  *)
(* a sequence of pieces (mnemonics, separators, rendered arguments); a     *)
(* placeholder {X} of a base string is one piece.  An argument is a        *)
(* JavaScript value: a number, a string, a boolean or undefined.           *)
(***************************************************************************)
JsNum(n) == [t |-> "number", n |-> n, s |-> ""]
JsStr(str) == [t |-> "string", n |-> 0, s |-> str]
JsBool(b) == [t |-> "boolean", n |-> IF b THEN 1 ELSE 0, s |-> ""]
JsUndef == [t |-> "undefined", n |-> 0, s |-> ""]

\* String(val) as String.prototype.replace renders a replacement value
Render(v) ==
    CASE v.t = "number"    -> ToString(v.n)
      [] v.t = "string"    -> v.s
      [] v.t = "boolean"   -> IF v.n = 1 THEN "true" ELSE "false"
      [] v.t = "undefined" -> "undefined"

AckNakCommands ==
    {"controlSet", "changeController", "loadPreset", "setSystemString", "flashUnit",
     "pushState", "pushRefresh", "pushClear", "setPushInterval", "setPushThreshold"}

\* commands[name].base
Base(name) ==
    CASE name = "controlSet"       -> <<"CS", " ", "{CID}", " ", "{VAL}">>
      [] name = "changeController" -> <<"CC", " ", "{CID}", " ", "{DECINC}", " ", "{VAL}">>
      [] name = "controlGet"       -> <<"GS2", " ", "{CID}">>
      [] name = "controlGetBlock"  -> <<"GSB3", " ", "{CID}", " ", "{SIZE}">>
      [] name = "getPreset"        -> <<"GPR">>
      [] name = "loadPreset"       -> <<"LP", " ", "{VAL}">>
      [] name = "setSystemString"  -> <<"SSYSS", " ", "{STR}", "=", "{VAL}">>
      [] name = "getSystemString"  -> <<"GSYSS", " ", "{STR}">>
      [] name = "flashUnit"        -> <<"FU">>
      [] name = "pushState"        -> <<"PU", "{EN}", " ", "{LOW}", " ", "{HIGH}">>
      [] name = "getPushEnabled"   -> <<"GPU", " ", "{LOW}", " ", "{HIGH}">>
      [] name = "pushRefresh"      -> <<"PUR", " ", "{LOW}", " ", "{HIGH}">>
      [] name = "pushClear"        -> <<"PUC", " ", "{LOW}", " ", "{HIGH}">>
      [] name = "setPushInterval"  -> <<"PUI", " ", "{VAL}">>
      [] name = "setPushThreshold" -> <<"PUT", " ", "{PARAM_THRESH}", " ", "{METER_THRESH}">>
      [] name = "reboot"           -> <<"R!">>

\* commands[name].args, in the order the object lists them: <<argument, placeholder>>
Args(name) ==
    CASE name = "controlSet"       -> <<<<"id", "{CID}">>, <<"value", "{VAL}">>>>
      [] name = "changeController" ->
             <<<<"id", "{CID}">>, <<"decinc", "{DECINC}">>, <<"value", "{VAL}">>>>
      [] name = "controlGet"       -> <<<<"id", "{CID}">>>>
      [] name = "controlGetBlock"  -> <<<<"id", "{CID}">>, <<"size", "{SIZE}">>>>
      [] name = "loadPreset"       -> <<<<"value", "{VAL}">>>>
      [] name = "setSystemString"  -> <<<<"string", "{STR}">>, <<"value", "{VAL}">>>>
      [] name = "getSystemString"  -> <<<<"string", "{STR}">>>>
      [] name = "pushState"        ->
             <<<<"enable", "{EN}">>, <<"low", "{LOW}">>, <<"high", "{HIGH}">>>>
      [] name \in {"getPushEnabled", "pushRefresh", "pushClear"} ->
             <<<<"low", "{LOW}">>, <<"high", "{HIGH}">>>>
      [] name = "setPushInterval"  -> <<<<"value", "{VAL}">>>>
      [] name = "setPushThreshold" ->
             <<<<"other", "{PARAM_THRESH}">>, <<"meter", "{METER_THRESH}">>>>
      [] OTHER                     -> <<>>

\* commands[name].respRegex
RespRegex(name) ==
    CASE name \in AckNakCommands    -> "acknak"
      [] name = "controlGet"        -> "scalar"
      [] name = "controlGetBlock"   -> "block"
      [] name = "getPreset"         -> "digits"
      [] name = "getSystemString"   -> "sysstring"
      [] name = "getPushEnabled"    -> "pushenabled"
      [] name = "reboot"            -> "any"

\* inArgs[arg], undefined for an argument the caller did not pass
ArgOf(inArgs, arg) == IF arg \in DOMAIN inArgs THEN inArgs[arg] ELSE JsUndef

\* cmd.replace(placeholder, val): the first occurrence only
ReplaceFirst(cmd, placeholder, val) ==
    LET at == {i \in 1..Len(cmd) : cmd[i] = placeholder}
    IN  IF at = {} THEN cmd
        ELSE [cmd EXCEPT ![CHOOSE i \in at : \A j \in at : i <= j] = val]

\* Math.abs of an argument (NaN for what is no number)
JsAbs(v) ==
    IF v.t = "number" THEN JsNum(IF v.n < 0 THEN 0 - v.n ELSE v.n) ELSE JsStr("NaN")

\* the loop of buildCommandString over commands[command].args, from the k-th on
RECURSIVE Substitute(_, _, _, _)
Substitute(cmd, args, inArgs, k) ==
    IF k > Len(args) THEN cmd
    ELSE LET arg == args[k][1]
             val == CASE arg = "decinc" ->
                              IF ArgOf(inArgs, "value").t = "number"
                                 /\ ArgOf(inArgs, "value").n >= 0 THEN "1" ELSE "0"
                       [] arg = "enable" ->
                              IF ArgOf(inArgs, "enable") \in {JsBool(FALSE), JsUndef, JsNum(0), JsStr("")}
                              THEN "D" ELSE "E"
                       [] OTHER ->
                              IF ArgOf(inArgs, arg).t = "undefined" THEN ""
                              ELSE Render(ArgOf(inArgs, arg))
             next == IF arg = "decinc"
                     THEN [a \in DOMAIN inArgs \cup {"value"} |->
                              IF a = "value" THEN JsAbs(ArgOf(inArgs, "value")) ELSE inArgs[a]]
                     ELSE inArgs
         IN  Substitute(ReplaceFirst(cmd, args[k][2], val), args, next, k + 1)

\* String.prototype.trim on the pieces: blank pieces at both ends go
RECURSIVE Trim(_)
Trim(cmd) ==
    IF cmd = <<>> THEN cmd
    ELSE IF Head(cmd) \in {"", " "} THEN Trim(Tail(cmd))
    ELSE IF cmd[Len(cmd)] \in {"", " "} THEN Trim(SubSeq(cmd, 1, Len(cmd) - 1))
    ELSE cmd

\* buildCommandString (exported as getCommand) for a command of the table
getCommand(command, inArgs) ==
    [command  |-> Append(Trim(Substitute(<<"$q", " ">> \o Base(command), Args(command), inArgs, 1)), "\r"),
     response |-> RespRegex(command)]

(***************************************************************************)
(* The Symetrix object, its socket and its timers.                         *)
(***************************************************************************)
VARIABLES
    recvBuffer,     \* this._recvBuffer: the bytes of an unterminated frame
    sendBuffer,     \* this._sendBuffer: the FIFO of {command, regex, cb}
    readyToSend,    \* this._readyToSend
    nextResponse,   \* this._nextResponse: the in-flight pattern, or undefined
    nextCb,         \* this._nextCb: the in-flight handler, or undefined
    noResponse,     \* this._noResponse: the handle of the timer armed last
    retryTimeout,   \* this.retryTimeout
    readyState,     \* this.sock.readyState
    timers,         \* the no-response timers that are armed (event loop)
    reconnects,     \* the reconnection timers that are armed (event loop)
    message,        \* the device message that the network is delivering
    delivered,      \* the number of its bytes the socket has received so far
    nSub,           \* the number of commands submitted so far
    written,        \* history: the commands written to the socket, in order
    invoked,        \* history: the commands whose handler was invoked, in order
    timedOut,       \* history: the commands whose no-response timer expired
    nCloses,        \* history: the number of close events so far
    queuedAtClose,  \* history: the commands that were queued at a close event
    answered,       \* history: the command the device answered last
    emitted         \* what the last step emitted: events, handler calls, writes

sequencer == <<recvBuffer, sendBuffer, readyToSend, nextResponse, nextCb, noResponse,
               timers, written, invoked, timedOut, emitted>>
socket == <<retryTimeout, readyState, reconnects>>
network == <<message, delivered>>
history == <<nCloses, queuedAtClose, answered>>
vars == <<sequencer, socket, network, history, nSub>>

\* a completion handler is named by the number of its submission; 0 is undefined
NoCb == 0
Tickets == 1..MaxSubmit

\* the fields the handlers of the object read and write, as one record
State ==
    [recvBuffer |-> recvBuffer, sendBuffer |-> sendBuffer, readyToSend |-> readyToSend,
     nextResponse |-> nextResponse, nextCb |-> nextCb, noResponse |-> noResponse,
     timers |-> timers, written |-> written, invoked |-> invoked,
     timedOut |-> timedOut, emitted |-> <<>>]

SetState(s) ==
    /\ recvBuffer' = s.recvBuffer
    /\ sendBuffer' = s.sendBuffer
    /\ readyToSend' = s.readyToSend
    /\ nextResponse' = s.nextResponse
    /\ nextCb' = s.nextCb
    /\ noResponse' = s.noResponse
    /\ timers' = s.timers
    /\ written' = s.written
    /\ invoked' = s.invoked
    /\ timedOut' = s.timedOut
    /\ emitted' = s.emitted

Event(ev, cb, data) == [ev |-> ev, cb |-> cb, data |-> data]

Emit(s, ev, cb, data) == [s EXCEPT !.emitted = Append(@, Event(ev, cb, data))]

\* Send with the no-response timer forgotten
SendNoTimer(s, command, regex, cb) ==
    IF readyState \in {"open", "writeOnly"}
    THEN [Emit(s, "write", cb, ValString(command))
             EXCEPT !.readyToSend = FALSE,
                    !.nextResponse = regex,
                    !.nextCb = cb,
                    !.written = Append(@, cb)]
    ELSE s

\* _send: write and arm the timer when the socket is open, else only log
Send(s, command, regex, cb) ==
    IF readyState \in {"open", "writeOnly"}
    THEN [Emit(s, "write", cb, ValString(command))
             EXCEPT !.readyToSend = FALSE,
                    !.nextResponse = regex,
                    !.nextCb = cb,
                    !.written = Append(@, cb),
                    !.noResponse = cb,
                    !.timers = @ \cup {cb}]
    ELSE s

\* OnReadyToSend taking the newest entry (pop) instead of the oldest (shift)
OnReadyToSendPop(s) ==
    LET s1 == [s EXCEPT !.nextResponse = Undefined, !.nextCb = NoCb]
        n == Len(s1.sendBuffer)
    IN  IF n > 0
        THEN LET e == s1.sendBuffer[n]
             IN  Send([s1 EXCEPT !.sendBuffer = SubSeq(@, 1, n - 1)], e.command, e.regex, e.cb)
        ELSE [s1 EXCEPT !.readyToSend = TRUE]

\* OnReadyToSend leaving the in-flight slot as it is when the queue is empty
OnReadyToSendKeepSlot(s) ==
    IF Len(s.sendBuffer) > 0
    THEN LET e == Head(s.sendBuffer)
         IN  Send([s EXCEPT !.sendBuffer = Tail(@), !.nextResponse = Undefined, !.nextCb = NoCb],
                  e.command, e.regex, e.cb)
    ELSE [s EXCEPT !.readyToSend = TRUE]

\* the 'readyToSend' listener of the constructor
OnReadyToSend(s) ==
    LET s1 == [s EXCEPT !.nextResponse = Undefined, !.nextCb = NoCb]
    IN  IF Len(s1.sendBuffer) > 0
        THEN LET e == Head(s1.sendBuffer)
             IN  Send([s1 EXCEPT !.sendBuffer = Tail(@)], e.command, e.regex, e.cb)
        ELSE [s1 EXCEPT !.readyToSend = TRUE]

\* ReqToSend putting a waiting command at the head of the queue (unshift)
ReqToSendUnshift(s, command, regex, cb) ==
    IF s.readyToSend THEN Send(s, command, regex, cb)
    ELSE [s EXCEPT !.sendBuffer = <<[command |-> command, regex |-> regex, cb |-> cb]>> \o @]

\* ReqToSend sending at once, whether a command is in flight or not
ReqToSendAlways(s, command, regex, cb) == Send(s, command, regex, cb)

\* ReqToSend deciding by the send queue, as its comment says ("if send buffer
\* is empty, call this._send"), in place of the ready flag
ReqToSendIfQueueEmpty(s, command, regex, cb) ==
    IF s.sendBuffer = <<>> THEN Send(s, command, regex, cb)
    ELSE [s EXCEPT !.sendBuffer = Append(@, [command |-> command, regex |-> regex, cb |-> cb])]

\* reqToSend (cb is a function in every call the object makes)
ReqToSend(s, command, regex, cb) ==
    IF s.readyToSend THEN Send(s, command, regex, cb)
    ELSE [s EXCEPT !.sendBuffer = Append(@, [command |-> command, regex |-> regex, cb |-> cb])]

\* the value the response branch computes for the handler: the records
\* behind the header line of a GSB3 reply, else the single-record parse
ParseResponse(respData, regex) ==
    IF SliceTo(respData, 4) = sGSB3
    THEN ValList(ParseMultiple(SliceFrom(respData, IndexOf(respData, "\r") + 1)))
    ELSE ParseSingle(respData, regex)

\* OnResponse without the emit of 'readyToSend' after the handler call
OnResponseNoEmit(s, respData) ==
    [Emit([s EXCEPT !.timers = @ \ {s.noResponse}], "cb", s.nextCb,
          ParseResponse(respData, s.nextResponse))
        EXCEPT !.invoked = Append(@, s.nextCb)]

\* OnResponse giving up on a reply of unknown format (as a throw in
\* _parseSingle would): the timer is cleared and nothing else happens
OnResponseUnknownFatal(s, respData) ==
    LET s1 == [s EXCEPT !.timers = @ \ {s.noResponse}]
        response == ParseResponse(respData, s.nextResponse)
        s2 == [Emit(s1, "cb", s.nextCb, response) EXCEPT !.invoked = Append(@, s.nextCb)]
    IN  IF response = ValUndefined THEN s1 ELSE OnReadyToSend(s2)

\* OnResponse without the clearTimeout of the no-response timer
OnResponseKeepTimer(s, respData) ==
    LET response == ParseResponse(respData, s.nextResponse)
        s2 == [Emit(s, "cb", s.nextCb, response) EXCEPT !.invoked = Append(@, s.nextCb)]
    IN  OnReadyToSend(s2)

\* the response branch of the 'data' listener
OnResponse(s, respData) ==
    LET s1 == [s EXCEPT !.timers = @ \ {s.noResponse}]
        response == ParseResponse(respData, s.nextResponse)
        s2 == [Emit(s1, "cb", s.nextCb, response) EXCEPT !.invoked = Append(@, s.nextCb)]
    IN  OnReadyToSend(s2)

\* OnData taking the whole frame as the response when the pattern is found
\* behind a push
OnDataWholeResponse(s, data) ==
    IF data[Len(data)] # "\r"
    THEN [s EXCEPT !.recvBuffer = @ \o data]
    ELSE LET full == s.recvBuffer \o data
             s1 == [s EXCEPT !.recvBuffer = <<>>]
             split == IF s.nextResponse # Undefined THEN Search(full, s.nextResponse) ELSE -1
         IN  IF split < 0
             THEN Emit(s1, "push", NoCb, ValList(ParseMultiple(full)))
             ELSE OnResponse(s1, full)

\* OnData searching the frame without the test for a command in flight
\* (search(undefined) finds the empty pattern at offset 0)
OnDataSearchAlways(s, data) ==
    IF data[Len(data)] # "\r"
    THEN [s EXCEPT !.recvBuffer = @ \o data]
    ELSE LET full == s.recvBuffer \o data
             s1 == [s EXCEPT !.recvBuffer = <<>>]
             split == IF s.nextResponse # Undefined THEN Search(full, s.nextResponse) ELSE 0
             pushData == IF split < 0 THEN full
                         ELSE IF split = 0 THEN <<>> ELSE SliceTo(full, split)
             respData == IF split < 0 THEN <<>>
                         ELSE IF split = 0 THEN full ELSE SliceFrom(full, split)
             s2 == IF pushData # <<>>
                   THEN Emit(s1, "push", NoCb, ValList(ParseMultiple(pushData)))
                   ELSE s1
         IN  IF respData # <<>> THEN OnResponse(s2, respData) ELSE s2

\* OnData keeping only the newest fragment of an unterminated frame
OnDataOverwrite(s, data) ==
    IF data[Len(data)] # "\r"
    THEN [s EXCEPT !.recvBuffer = data]
    ELSE LET full == s.recvBuffer \o data
             s1 == [s EXCEPT !.recvBuffer = <<>>]
             split == IF s.nextResponse # Undefined THEN Search(full, s.nextResponse) ELSE -1
             pushData == IF split < 0 THEN full
                         ELSE IF split = 0 THEN <<>> ELSE SliceTo(full, split)
             respData == IF split < 0 THEN <<>>
                         ELSE IF split = 0 THEN full ELSE SliceFrom(full, split)
             s2 == IF pushData # <<>>
                   THEN Emit(s1, "push", NoCb, ValList(ParseMultiple(pushData)))
                   ELSE s1
         IN  IF respData # <<>> THEN OnResponse(s2, respData) ELSE s2

\* OnData leaving the assembled frame in the frame buffer
OnDataKeepBuffer(s, data) ==
    IF data[Len(data)] # "\r"
    THEN [s EXCEPT !.recvBuffer = @ \o data]
    ELSE LET full == s.recvBuffer \o data
             s1 == [s EXCEPT !.recvBuffer = full]
             split == IF s.nextResponse # Undefined THEN Search(full, s.nextResponse) ELSE -1
             pushData == IF split < 0 THEN full
                         ELSE IF split = 0 THEN <<>> ELSE SliceTo(full, split)
             respData == IF split < 0 THEN <<>>
                         ELSE IF split = 0 THEN full ELSE SliceFrom(full, split)
             s2 == IF pushData # <<>>
                   THEN Emit(s1, "push", NoCb, ValList(ParseMultiple(pushData)))
                   ELSE s1
         IN  IF respData # <<>> THEN OnResponse(s2, respData) ELSE s2

\* the 'data' listener of the socket
OnData(s, data) ==
    IF data[Len(data)] # "\r"
    THEN [s EXCEPT !.recvBuffer = @ \o data]
    ELSE LET full == s.recvBuffer \o data
             s1 == [s EXCEPT !.recvBuffer = <<>>]
             split == IF s.nextResponse # Undefined THEN Search(full, s.nextResponse) ELSE -1
             pushData == IF split < 0 THEN full
                         ELSE IF split = 0 THEN <<>> ELSE SliceTo(full, split)
             respData == IF split < 0 THEN <<>>
                         ELSE IF split = 0 THEN full ELSE SliceFrom(full, split)
             s2 == IF pushData # <<>>
                   THEN Emit(s1, "push", NoCb, ValList(ParseMultiple(pushData)))
                   ELSE s1
         IN  IF respData # <<>> THEN OnResponse(s2, respData) ELSE s2

\* the response branch of the 'data' listener with a completion handler
\* that calls reqToSend(command, regex, cb) before it returns: the call runs
\* inside this._nextCb(null, response), in front of emit('readyToSend')
OnResponseReentrant(s, respData, command, regex, cb) ==
    LET s1 == [s EXCEPT !.timers = @ \ {s.noResponse}]
        response == ParseResponse(respData, s.nextResponse)
        s2 == [Emit(s1, "cb", s.nextCb, response) EXCEPT !.invoked = Append(@, s.nextCb)]
    IN  OnReadyToSend(ReqToSend(s2, command, regex, cb))

\* the 'data' listener of the socket with such a completion handler in flight
OnDataReentrant(s, data, command, regex, cb) ==
    IF data[Len(data)] # "\r"
    THEN [s EXCEPT !.recvBuffer = @ \o data]
    ELSE LET full == s.recvBuffer \o data
             s1 == [s EXCEPT !.recvBuffer = <<>>]
             split == IF s.nextResponse # Undefined THEN Search(full, s.nextResponse) ELSE -1
             pushData == IF split < 0 THEN full
                         ELSE IF split = 0 THEN <<>> ELSE SliceTo(full, split)
             respData == IF split < 0 THEN <<>>
                         ELSE IF split = 0 THEN full ELSE SliceFrom(full, split)
             s2 == IF pushData # <<>>
                   THEN Emit(s1, "push", NoCb, ValList(ParseMultiple(pushData)))
                   ELSE s1
         IN  IF respData # <<>>
             THEN OnResponseReentrant(s2, respData, command, regex, cb)
             ELSE s2

(***************************************************************************)
(* Validation helpers and the caller-facing operations.  Each operation    *)
(* runs its promise executor: the check (reject on failure, with no        *)
(* return), then getCommand and reqToSend.                                 *)
(***************************************************************************)
validRange(value, low, high) ==
    IF value.t # "number" THEN FALSE
    ELSE IF value.n < low \/ value.n > high THEN FALSE
    ELSE TRUE

validControlId(id) == validRange(id, 0, 10000)

validControlValue(value) == validRange(value, 0, 65535)

\* the executor of a caller-facing operation, given the outcome of its check
Executor(valid, cmd) ==
    /\ nSub < MaxSubmit
    /\ nSub' = nSub + 1
    /\ LET cb == nSub + 1
           s0 == IF valid THEN State ELSE Emit(State, "reject", cb, ValUndefined)
       IN  SetState(ReqToSend(s0, cmd.command, cmd.response, cb))
    /\ UNCHANGED <<socket, network, history>>

\* the calls of the model: a valid controlSet and a controlGet whose control
\* identifier is out of range
controlSet ==
    \E id \in {JsNum(1)}, value \in {JsNum(0)} :
        Executor(validControlId(id) /\ validControlValue(value),
                 getCommand("controlSet", [id |-> id, value |-> value]))

controlGet ==
    \E id \in {JsNum(10001)} :
        Executor(validControlId(id), getCommand("controlGet", [id |-> id]))

\* the check of a caller-facing method and the command it builds, for the
\* arguments a and b of the call (undefined for an argument it does not take)
Operation(method, a, b) ==
    CASE method = "controlSet" ->
             [valid |-> validControlId(a) /\ validControlValue(b),
              cmd |-> getCommand("controlSet", [id |-> a, value |-> b])]
      [] method = "controlGet" ->
             [valid |-> validControlId(a),
              cmd |-> getCommand("controlGet", [id |-> a])]
      [] method = "controlGetBlock" ->
             [valid |-> validControlId(a) /\ validRange(b, 1, 256),
              cmd |-> getCommand("controlGetBlock", [id |-> a, size |-> b])]
      [] method = "reboot" ->
             [valid |-> TRUE, cmd |-> getCommand("reboot", <<>>)]
      [] method = "getSystemString" ->
             [valid |-> a.t = "string",
              cmd |-> getCommand("getSystemString", [string |-> a])]
      [] method = "loadPreset" ->
             [valid |-> validRange(a, 1, 1000),
              cmd |-> getCommand("loadPreset", [id |-> a])]

\* the calls of the specification of the replies: one method for each reply
\* family, controlSet on control 0 and loadPreset of two presets
Calls ==
    {<<"controlSet", JsNum(0), JsNum(0)>>,
     <<"controlGet", JsNum(1000), JsUndef>>,
     <<"controlGetBlock", JsNum(1), JsNum(2)>>,
     <<"reboot", JsUndef, JsUndef>>,
     <<"getSystemString", JsStr("x"), JsUndef>>,
     <<"loadPreset", JsNum(1), JsUndef>>,
     <<"loadPreset", JsNum(2), JsUndef>>}

\* one of these calls
CallOf(c) ==
    /\ nSub < MaxCalls
    /\ Executor(Operation(c[1], c[2], c[3]).valid, Operation(c[1], c[2], c[3]).cmd)

Call == \E c \in Calls : CallOf(c)

(***************************************************************************)
(* The socket, the network and the timers.                                 *)
(***************************************************************************)
fACK == sACK \o <<"\r">>
fPUSH == <<"#", "0", "0", "0", "0", "1", "=", "0", "0", "0", "4", "2", "\r">>
fSCALAR == <<"1", " ", "7", "\r">>

\* what the device sends: replies, a push, a push with a reply glued to it
Frames == {fACK, fSCALAR, fPUSH, fPUSH \o fACK}

Init ==
    /\ recvBuffer = <<>>
    /\ sendBuffer = <<>>
    /\ readyToSend = TRUE
    /\ nextResponse = Undefined
    /\ nextCb = NoCb
    /\ noResponse = NoCb
    /\ retryTimeout \in {0, 20000}
    /\ readyState = "opening"
    /\ timers = {}
    /\ reconnects = 0
    /\ message = <<>>
    /\ delivered = 0
    /\ nSub = 0
    /\ written = <<>>
    /\ invoked = <<>>
    /\ timedOut = {}
    /\ nCloses = 0
    /\ queuedAtClose = {}
    /\ answered = NoCb
    /\ emitted = <<>>

\* sock 'ready'
SockReady ==
    /\ readyState = "opening"
    /\ readyState' = "open"
    /\ SetState(Emit(State, "connected", NoCb, ValUndefined))
    /\ UNCHANGED <<retryTimeout, reconnects, network, history, nSub>>

\* sock 'error': logged
SockError ==
    /\ readyState \in {"opening", "open"}
    /\ SetState(State)
    /\ UNCHANGED <<socket, network, history, nSub>>

\* SockClose failing what is pending: the send queue and the in-flight slot
\* are emptied and the no-response timer is cancelled
SockCloseFlush ==
    /\ readyState \in {"opening", "open"}
    /\ nCloses < MaxCloses
    /\ readyState' = "closed"
    /\ reconnects' = IF retryTimeout > 0 THEN reconnects + 1 ELSE reconnects
    /\ message' = <<>>
    /\ delivered' = 0
    /\ nCloses' = nCloses + 1
    /\ queuedAtClose' = queuedAtClose \cup {sendBuffer[i].cb : i \in DOMAIN sendBuffer}
    /\ SetState([State EXCEPT !.sendBuffer = <<>>, !.nextResponse = Undefined,
                              !.nextCb = NoCb, !.timers = {}])
    /\ UNCHANGED <<retryTimeout, nSub, answered>>

\* SockClose scheduling the reconnection whatever retryTimeout is
SockCloseAlwaysRetry ==
    /\ readyState \in {"opening", "open"}
    /\ nCloses < MaxCloses
    /\ readyState' = "closed"
    /\ reconnects' = reconnects + 1
    /\ message' = <<>>
    /\ delivered' = 0
    /\ nCloses' = nCloses + 1
    /\ queuedAtClose' = queuedAtClose \cup {sendBuffer[i].cb : i \in DOMAIN sendBuffer}
    /\ SetState(State)
    /\ UNCHANGED <<retryTimeout, nSub, answered>>

\* sock 'close': the bytes in the network are lost, a reconnection is scheduled
SockClose ==
    /\ readyState \in {"opening", "open"}
    /\ nCloses < MaxCloses
    /\ readyState' = "closed"
    /\ reconnects' = IF retryTimeout > 0 THEN reconnects + 1 ELSE reconnects
    /\ message' = <<>>
    /\ delivered' = 0
    /\ nCloses' = nCloses + 1
    /\ queuedAtClose' = queuedAtClose \cup {sendBuffer[i].cb : i \in DOMAIN sendBuffer}
    /\ SetState(State)
    /\ UNCHANGED <<retryTimeout, nSub, answered>>

\* the reconnection timer fires: sock.connect
Reconnect ==
    /\ reconnects > 0
    /\ reconnects' = reconnects - 1
    /\ readyState' = "opening"
    /\ SetState(State)
    /\ UNCHANGED <<retryTimeout, network, history, nSub>>

\* where the network cuts a message: after the first character of a line
\* and after a terminator inside the message
CutPoints(msg) ==
    {k \in 1..(Len(msg) - 1) : k = 1 \/ msg[k] = "\r" \/ msg[k - 1] = "\r"}

\* sock 'data': the network delivers the next chunk of a device message,
\* up to one of its cut points or up to its end
SockData ==
    /\ readyState = "open"
    /\ \E msg \in (IF message = <<>> THEN Frames ELSE {message}) :
       \E k \in CutPoints(msg) \cup {Len(msg)} :
          LET from == IF message = <<>> THEN 0 ELSE delivered
          IN  /\ k > from
              /\ message' = IF k = Len(msg) THEN <<>> ELSE msg
              /\ delivered' = IF k = Len(msg) THEN 0 ELSE k
              /\ SetState(OnData(State, SubSeq(msg, from + 1, k)))
    /\ UNCHANGED <<socket, history, nSub>>

\* further device messages: the replies of each family, an empty line, a
\* block reply of 0 and of 2 records and one of 1 record behind a push, a
\* push glued in front of a reply
fNAK == sNAK \o <<"\r">>
fSCALAR5 == <<"1", "0", "0", "0", " ", "0", "4", "0", "9", "6", "\r">>
fGSYSS == sGSYSS \o <<"a", "b", "\r">>
fGSYSS0 == sGSYSS \o <<"\r">>
fCR == <<"\r">>
fHEADER == sGSB3 \o <<" ", "0", "0", "0", "0", "1", " ", "0", "0", "0", "0", "2", "\r">>
fREC2 == <<"#", "0", "0", "0", "0", "2", "=", "0", "0", "0", "0", "7", "\r">>

Replies ==
    {fACK, fNAK, fSCALAR5, fGSYSS, fGSYSS0, fCR, fPUSH,
     fHEADER, fHEADER \o fPUSH \o fREC2,
     fPUSH \o fACK, fREC2 \o fHEADER \o fPUSH}

\* the chunk that ends at byte k of the device message msg
ChunkOf(msg, k) == SubSeq(msg, (IF message = <<>> THEN 0 ELSE delivered) + 1, k)

\* where a chunk of the device message msg ends: at a cut point or at its end
ChunkEnds(msg) == CutPoints(msg) \cup {Len(msg)}

\* the device message that arrives next: the rest of the one that is being
\* delivered, else any of Replies
Incoming == IF message = <<>> THEN Replies ELSE {message}

\* sock 'data': the socket receives the bytes of msg up to its chunk end k
Receive(msg, k) ==
    /\ readyState = "open"
    /\ msg \in Incoming
    /\ k > (IF message = <<>> THEN 0 ELSE delivered)
    /\ UNCHANGED <<socket, history, nSub>>
    /\ message' = IF k = Len(msg) THEN <<>> ELSE msg
    /\ delivered' = IF k = Len(msg) THEN 0 ELSE k
    /\ SetState(OnData(State, ChunkOf(msg, k)))

\* sock 'data' with the device sending one of Replies
ReplyData == \E msg \in Incoming : \E k \in ChunkEnds(msg) : Receive(msg, k)

\* NoResponseTimeout with a timer that stays armed when it has fired
\* (setInterval in place of setTimeout)
NoResponseTimeoutRepeating ==
    \E t \in timers :
        /\ SetState(OnReadyToSend([State EXCEPT !.timedOut = @ \cup {t}]))
        /\ UNCHANGED <<socket, network, history, nSub>>

\* a no-response timer fires: emit 'readyToSend'
NoResponseTimeout ==
    \E t \in timers :
        /\ SetState(OnReadyToSend([State EXCEPT !.timers = @ \ {t},
                                                !.timedOut = @ \cup {t}]))
        /\ UNCHANGED <<socket, network, history, nSub>>

Next ==
    \/ controlSet
    \/ controlGet
    \/ SockReady
    \/ SockError
    \/ SockClose
    \/ Reconnect
    \/ SockData
    \/ NoResponseTimeout

Spec == Init /\ [][Next]_vars

\* the timers of the event loop fire: setTimeout callbacks are always run
FairSpec == Spec /\ WF_vars(NoResponseTimeout) /\ WF_vars(Reconnect)

\* the replies: every reply family and every method behind it, on a socket
\* that stays open
ReplyNext ==
    \/ Call
    \/ SockReady
    \/ ReplyData
    \/ NoResponseTimeout

ReplySpec == Init /\ [][ReplyNext]_vars

\* the device answers the oldest command written to the socket that it has
\* not answered yet, a controlSet, with ACK, and a push record may follow
\* the reply in the same segment: the message is in the network
DeviceReply ==
    /\ readyState = "open"
    /\ message = <<>>
    /\ \E i \in DOMAIN written :
          /\ written[i] > answered
          /\ \A j \in DOMAIN written : written[j] > answered => i <= j
          /\ answered' = written[i]
    /\ message' \in {fACK, fACK \o fPUSH}
    /\ delivered' = 0
    /\ UNCHANGED <<sequencer, socket, nCloses, queuedAtClose, nSub>>

\* sock 'data' with the next chunk of the reply that is in the network
LateData == message # <<>> /\ SockData

\* the late replies: a device that answers every controlSet, in order, and a
\* network that delivers the reply at any time, before or after the
\* no-response timer of the command has fired
LateNext ==
    \/ controlSet
    \/ SockReady
    \/ DeviceReply
    \/ LateData
    \/ NoResponseTimeout

LateSpec == Init /\ [][LateNext]_vars

\* sock 'data' with a frame that holds the awaited reply, the handler of the
\* in-flight command submitting a further controlSet through reqToSend
\* while it runs
ReentrantData ==
    /\ readyState = "open"
    /\ nSub < MaxSubmit
    /\ nextResponse # Undefined
    /\ \E msg \in (IF message = <<>> THEN Frames ELSE {message}) :
       \E k \in CutPoints(msg) \cup {Len(msg)} :
          LET from == IF message = <<>> THEN 0 ELSE delivered
              cmd == getCommand("controlSet", [id |-> JsNum(1), value |-> JsNum(0)])
          IN  /\ k > from
              /\ msg[k] = "\r"
              /\ Search(recvBuffer \o SubSeq(msg, from + 1, k), nextResponse) >= 0
              /\ message' = IF k = Len(msg) THEN <<>> ELSE msg
              /\ delivered' = IF k = Len(msg) THEN 0 ELSE k
              /\ SetState(OnDataReentrant(State, SubSeq(msg, from + 1, k),
                                          cmd.command, cmd.response, nSub + 1))
    /\ nSub' = nSub + 1
    /\ UNCHANGED <<socket, history>>

\* the re-entrant submissions: callers that submit from outside and
\* completion handlers that submit while they run, on a socket that stays
\* open
ReentrantNext ==
    \/ controlSet
    \/ SockReady
    \/ SockData
    \/ ReentrantData
    \/ NoResponseTimeout

ReentrantSpec == Init /\ [][ReentrantNext]_vars

(***************************************************************************)
(* Properties.                                                             *)
(***************************************************************************)
InQueue(c) == \E i \in DOMAIN sendBuffer : sendBuffer[i].cb = c

Written(c) == \E i \in DOMAIN written : written[i] = c

InvokeCount(c) == Cardinality({i \in DOMAIN invoked : invoked[i] = c})

Emitted(ev) == \E i \in DOMAIN emitted : emitted[i].ev = ev

\* the position of command c in the send queue, 0 when it is not queued
QueuePos(c) ==
    IF InQueue(c) THEN CHOOSE i \in DOMAIN sendBuffer : sendBuffer[i].cb = c ELSE 0

\* C1: completion handlers are invoked in submission order: no handler is
\* invoked after the handler of a command that was submitted later.
C1_HandlersInSubmissionOrder ==
    \A i, j \in DOMAIN invoked : i < j => ~(invoked[j] < invoked[i])

\* two handlers were invoked and a command between them timed out
C1_Witness ==
    /\ Len(invoked) = 2
    /\ \E c \in timedOut : invoked[1] < c /\ c < invoked[2]

\* C2: the commands written to the socket are written in submission order
\* and none is written twice, also after a timeout and a reconnection.
C2_WrittenInSubmissionOrder ==
    \A i, j \in DOMAIN written : i < j => written[i] < written[j]

\* a command timed out, the socket closed and reopened, a later command is written
C2_Witness ==
    /\ nCloses = 1
    /\ readyState = "open"
    /\ Len(written) >= 2
    /\ written[1] \in timedOut
    /\ Emitted("write")

\* C3: at most one command is in flight: every command written before the
\* last written one had its response consumed or its timer expired.
C3_SingleFlight ==
    \A i \in DOMAIN written :
        i < Len(written) => written[i] \in timedOut \/ InvokeCount(written[i]) > 0

\* two commands were written while a third one waits in the queue
C3_Witness == Len(written) = 2 /\ Len(sendBuffer) = 1

\* C4: the completion handler of a command is invoked at most once.
C4_HandlerAtMostOnce == \A c \in Tickets : InvokeCount(c) <= 1

\* a handler was invoked, the sequencer went idle and a further reply-shaped
\* frame (no push record in it) arrived
C4_Witness ==
    /\ invoked = <<1>>
    /\ readyToSend
    /\ emitted = <<Event("push", NoCb, ValList(<<>>))>>

\* C5: a caller-facing operation whose argument fails validation has no
\* effect on the sequencer: the queue, the in-flight slot, the timer and
\* what was written stay as they are.
C5_InvalidCallNoEffect ==
    [][Emitted("reject")' =>
         UNCHANGED <<sendBuffer, nextResponse, nextCb, noResponse, timers, written>>]_vars

\* C6: when the no-response timer expires with a command in flight, the
\* head of a non-empty queue is removed and dispatched in that step (written,
\* timer armed, in-flight slot set); with an empty queue the sequencer is idle.
C6_TimeoutDispatchesHead ==
    [][(timedOut' # timedOut /\ nextCb # NoCb) =>
         IF sendBuffer # <<>>
         THEN /\ sendBuffer' = Tail(sendBuffer)
              /\ written' = Append(written, Head(sendBuffer).cb)
              /\ Emitted("write")'
              /\ nextResponse' = Head(sendBuffer).regex
              /\ nextCb' = Head(sendBuffer).cb
              /\ timers' = {Head(sendBuffer).cb}
         ELSE /\ readyToSend'
              /\ nextResponse' = Undefined
              /\ nextCb' = NoCb
              /\ timers' = {}]_vars

\* C7: once the no-response timer of a command has expired, its completion
\* handler is never invoked afterwards.
C7_NoHandlerAfterTimeout ==
    [][\A c \in timedOut : InvokeCount(c)' = InvokeCount(c)]_vars

\* the only command timed out and a reply-shaped frame arrived later
C7_Witness ==
    /\ timedOut = {1}
    /\ nSub = 1
    /\ invoked = <<>>
    /\ emitted = <<Event("push", NoCb, ValList(<<>>))>>

\* C8: while the socket has never closed and stays open, a command submitted
\* on the open socket is written at once or queued, and every queued command
\* is eventually written (timers fire: FairSpec).
C8_LostReplyNeverBlocks ==
    /\ [][\A c \in Tickets :
             (c = nSub + 1 /\ nSub' = c /\ readyState = "open" /\ nCloses = 0) =>
                 (Written(c)' \/ InQueue(c)')]_vars
    /\ \A c \in Tickets :
          (InQueue(c) /\ nCloses = 0) ~> (Written(c) \/ readyState # "open")

\* a command timed out unanswered and the next command was written
C8_Witness ==
    /\ nCloses = 0
    /\ invoked = <<>>
    /\ timedOut # {}
    /\ Len(written) >= 2

\* C9: a command that was queued when the socket closed is eventually
\* written once the socket is open again and stays open (FairSpec).
C9_QueueDrainedAfterReconnect ==
    \A c \in Tickets :
        (c \in queuedAtClose /\ readyState = "open") ~> (Written(c) \/ readyState # "open")

\* C10: a command leaves the send queue only by being written to the socket
\* and the commands that stay queued keep their relative order.
C10_LeavesQueueOnlyWritten ==
    [][/\ \A c \in Tickets : (InQueue(c) /\ ~InQueue(c)') => Written(c)'
       /\ \A c, d \in Tickets :
             (InQueue(c) /\ InQueue(d) /\ InQueue(c)' /\ InQueue(d)') =>
                 ((QueuePos(c) < QueuePos(d)) <=> (QueuePos(c)' < QueuePos(d)'))]_vars

\* the last step invoked the completion handler of command c
HandlerCalled(c) == \E i \in DOMAIN emitted : emitted[i].ev = "cb" /\ emitted[i].cb = c

\* C11: a dispatch attempted while the socket is not open (a submission on
\* the idle sequencer, or the head of the queue taken by readyToSend) invokes
\* the completion handler of that command (with the not-ready error) in that
\* step: the command is not dropped silently.
C11_NotReadyRejected ==
    [][\A c \in Tickets :
          (/\ readyState \notin {"open", "writeOnly"}
           /\ \/ (c = nSub + 1 /\ nSub' = c /\ readyToSend)
              \/ (InQueue(c) /\ ~InQueue(c)'))
          => HandlerCalled(c)']_vars

\* the events of one kind that the last step emitted, in order
EventsOf(ev) == SelectSeq(emitted, LAMBDA e : e.ev = ev)

\* the offsets of d at which pattern P matches
MatchOffsets(P, d) == {j \in 0..Len(d) : MatchAt(P, d, j + 1).ok}

\* C12: a complete frame received while a command with pattern P is in
\* flight: with no match of P the whole frame is the push segment and no
\* handler is invoked; with the first match at offset 0 the whole frame is
\* the response segment and no push is emitted; with the first match at
\* offset k > 0 bytes [0,k) are the push segment and the bytes from k on are
\* the response segment.
C12_ThreeWaySplit ==
    [][(nSub' = nSub /\ timedOut' = timedOut) => \A msg \in Incoming : \A k \in ChunkEnds(msg) :
          (msg[k] = "\r" /\ nextResponse # Undefined /\ Receive(msg, k)) =>
              LET full == recvBuffer \o ChunkOf(msg, k)
                  P == nextResponse
                  offsets == MatchOffsets(P, full)
              IN  /\ offsets = {} =>
                        /\ EventsOf("push")' = <<Event("push", NoCb, ValList(ParseMultiple(full)))>>
                        /\ EventsOf("cb")' = <<>>
                  /\ \A j \in offsets : (\A i \in offsets : j <= i) =>
                        /\ EventsOf("push")' =
                              IF j = 0 THEN <<>>
                              ELSE <<Event("push", NoCb,
                                           ValList(ParseMultiple(SubSeq(full, 1, j))))>>
                        /\ EventsOf("cb")' =
                              <<Event("cb", nextCb,
                                      ParseResponse(SubSeq(full, j + 1, Len(full)), P))>>]_vars

\* a block reply arrived behind a push record in one frame: the record was
\* pushed and the records of the block went to the handler
C12_Witness ==
    /\ Len(emitted) >= 2
    /\ emitted[1] = Event("push", NoCb, ValList(<<[id |-> 2, value |-> 7]>>))
    /\ emitted[2] = Event("cb", 1, ValList(<<[id |-> 1, value |-> 42]>>))

\* C13: a complete frame received while no command is in flight is a push
\* segment as a whole: one push event with its records is emitted, no
\* completion handler is invoked and the queue, the in-flight slot, the
\* timers and the ready flag stay as they are.
C13_IdleFrameIsPush ==
    [][(nSub' = nSub /\ timedOut' = timedOut) => \A msg \in Incoming : \A k \in ChunkEnds(msg) :
          (msg[k] = "\r" /\ nextResponse = Undefined /\ nextCb = NoCb /\ Receive(msg, k)) =>
              /\ emitted' = <<Event("push", NoCb,
                                    ValList(ParseMultiple(recvBuffer \o ChunkOf(msg, k))))>>
              /\ UNCHANGED <<sendBuffer, readyToSend, nextResponse, nextCb, noResponse,
                             timers, written, invoked, timedOut>>]_vars

\* the only command timed out, the sequencer went idle and a frame with a
\* record arrived
C13_Witness ==
    /\ nSub = 1
    /\ timedOut = {1}
    /\ readyToSend
    /\ nextCb = NoCb
    /\ emitted = <<Event("push", NoCb, ValList(<<[id |-> 1, value |-> 42]>>))>>

\* C14: fragmentation idempotence.  A chunk that does not end with the
\* terminator changes nothing but the frame buffer, to which it is appended,
\* and emits nothing; the chunk that ends with the terminator has the
\* effect (events, handler value, resulting state) that the same bytes have
\* when the buffered fragments arrive in one chunk with it.
C14_FragmentationIdempotent ==
    [][(nSub' = nSub /\ timedOut' = timedOut) => \A msg \in Incoming : \A k \in ChunkEnds(msg) :
          Receive(msg, k) =>
              IF msg[k] # "\r"
              THEN /\ recvBuffer' = recvBuffer \o ChunkOf(msg, k)
                   /\ emitted' = <<>>
                   /\ UNCHANGED <<sendBuffer, readyToSend, nextResponse, nextCb, noResponse,
                                  timers, written, invoked, timedOut>>
              ELSE SetState(OnData([State EXCEPT !.recvBuffer = <<>>],
                                   recvBuffer \o ChunkOf(msg, k)))]_vars

\* with a command in flight, the fragments of a frame are buffered, a
\* terminator inside them, and the last chunk is still to come
C14_Witness ==
    /\ message = fPUSH \o fACK
    /\ recvBuffer = SubSeq(message, 1, Len(fPUSH) + 1)
    /\ nextCb # NoCb

\* the records the device sends, as text and as the pair they stand for
recA == [text |-> fPUSH, pair |-> [id |-> 1, value |-> 42]]
recB == [text |-> fREC2, pair |-> [id |-> 2, value |-> 7]]

\* the lists of K = 0, 1, 2 records of a block reply
BlockLists == {<<>>, <<recA>>, <<recB>>, <<recA, recB>>, <<recB, recA>>}

\* the text of a list of records and the pairs of the list, in order
RECURSIVE TextOf(_)
TextOf(recs) == IF recs = <<>> THEN <<>> ELSE Head(recs).text \o TextOf(Tail(recs))

PairsOf(recs) == [i \in DOMAIN recs |-> recs[i].pair]

\* C15: with a block get in flight, a response segment that is the GSB3
\* header line followed by K records gives the completion handler exactly
\* the K pairs of these records, in the order received.
C15_BlockReplyPairs ==
    [][(nSub' = nSub /\ timedOut' = timedOut) => \A msg \in Incoming : \A k \in ChunkEnds(msg) :
          (msg[k] = "\r" /\ nextResponse = "block" /\ Receive(msg, k)) =>
              LET full == recvBuffer \o ChunkOf(msg, k)
                  offsets == MatchOffsets("block", full)
              IN  \A j \in offsets : (\A i \in offsets : j <= i) =>
                      \A recs \in BlockLists :
                          SubSeq(full, j + 1, Len(full)) = fHEADER \o TextOf(recs) =>
                              EventsOf("cb")' = <<Event("cb", nextCb, ValList(PairsOf(recs)))>>]_vars

\* a block get was answered by a header line and two records
C15_Witness ==
    /\ invoked = <<1>>
    /\ Len(emitted) >= 1
    /\ emitted[1] = Event("cb", 1, ValList(<<[id |-> 1, value |-> 42], [id |-> 2, value |-> 7]>>))

\* the replies of the single-record families: the pattern of the family, the
\* reply and the value it stands for
SingleReplies ==
    {[regex |-> "scalar", text |-> fSCALAR5, value |-> ValString(<<"0", "4", "0", "9", "6">>)],
     [regex |-> "sysstring", text |-> fGSYSS, value |-> ValString(<<"a", "b">>)],
     [regex |-> "acknak", text |-> fACK, value |-> ValBool(TRUE)],
     [regex |-> "acknak", text |-> fNAK, value |-> ValBool(FALSE)]}

\* C16: the single-record form gives the handler of the in-flight command
\* the value field of a scalar reply '<index> <value>', the string of a
\* system string reply, true for ACK and false for NAK.
C16_SingleRecordValue ==
    [][(nSub' = nSub /\ timedOut' = timedOut) => \A msg \in Incoming : \A k \in ChunkEnds(msg) :
          (msg[k] = "\r" /\ nextResponse # Undefined /\ Receive(msg, k)) =>
              LET full == recvBuffer \o ChunkOf(msg, k)
                  offsets == MatchOffsets(nextResponse, full)
              IN  \A j \in offsets : (\A i \in offsets : j <= i) =>
                      \A r \in SingleReplies :
                          (r.regex = nextResponse /\ SubSeq(full, j + 1, Len(full)) = r.text) =>
                              EventsOf("cb")' = <<Event("cb", nextCb, r.value)>>]_vars

\* a scalar get was answered '1000 04096'
C16_Witness ==
    /\ Len(emitted) >= 1
    /\ emitted[1] = Event("cb", 1, ValString(<<"0", "4", "0", "9", "6">>))

\* the response segment d matches pattern P at its start and the match has
\* none of the captures ret, ack, nak (an empty capture counts as none)
Unrecognized(P, d) ==
    /\ SliceTo(d, 4) # sGSB3
    /\ MatchAt(P, d, 1).ok
    /\ MatchAt(P, d, 1).ret = <<>>
    /\ MatchAt(P, d, 1).ack = <<>>
    /\ MatchAt(P, d, 1).nak = <<>>

\* C17: a response segment that matches the in-flight pattern with none of
\* the captures ret, ack, nak still invokes the handler of the in-flight
\* command, with undefined, cancels its timer and advances the sequencer:
\* the head of the queue is dispatched, or the sequencer goes idle.
C17_UnrecognizedNotFatal ==
    [][(nSub' = nSub /\ timedOut' = timedOut) => \A msg \in Incoming : \A k \in ChunkEnds(msg) :
          (msg[k] = "\r" /\ nextResponse # Undefined /\ Receive(msg, k)) =>
              LET full == recvBuffer \o ChunkOf(msg, k)
                  offsets == MatchOffsets(nextResponse, full)
              IN  \A j \in offsets :
                      ((\A i \in offsets : j <= i)
                          /\ Unrecognized(nextResponse, SubSeq(full, j + 1, Len(full)))) =>
                      /\ EventsOf("cb")' = <<Event("cb", nextCb, ValUndefined)>>
                      /\ invoked' = Append(invoked, nextCb)
                      /\ IF sendBuffer = <<>>
                         THEN /\ readyToSend'
                              /\ nextResponse' = Undefined
                              /\ nextCb' = NoCb
                              /\ timers' = timers \ {noResponse}
                              /\ EventsOf("write")' = <<>>
                         ELSE /\ ~readyToSend'
                              /\ sendBuffer' = Tail(sendBuffer)
                              /\ nextResponse' = Head(sendBuffer).regex
                              /\ nextCb' = Head(sendBuffer).cb
                              /\ timers' = (timers \ {noResponse}) \cup {Head(sendBuffer).cb}
                              /\ written' = Append(written, Head(sendBuffer).cb)
                              /\ EventsOf("write")' =
                                    <<Event("write", Head(sendBuffer).cb,
                                            ValString(Head(sendBuffer).command))>>]_vars

\* the first command got a reply of unknown format: its handler was called
\* with undefined and the queued second command was written
C17_Witness ==
    /\ Len(emitted) = 2
    /\ emitted[1] = Event("cb", 1, ValUndefined)
    /\ emitted[2].ev = "write"
    /\ emitted[2].cb = 2

\* the methods that take a control identifier as their first argument
ControlMethods == {"controlSet", "controlChange", "controlGet", "controlGetBlock"}

\* C18: a call of controlSet, controlChange, controlGet or controlGetBlock
\* with a control identifier outside 1..10000, 0 included, is rejected
\* (stated for the calls on an open socket, where the command text shows).
C18_ControlIdDomain ==
    [][\A c \in Calls :
          (/\ readyState = "open"
           /\ c[1] \in ControlMethods
           /\ (c[2].t # "number" \/ c[2].n < 1 \/ c[2].n > 10000)
           /\ CallOf(c))
          => Emitted("reject")']_vars

\* the text appears among the pieces of a command string
Contains(command, text) == \E i \in DOMAIN command : command[i] = text

\* C19: loadPreset(id) with a valid id writes a command text that carries
\* the preset number: the text contains the id, and it differs from the text
\* of loadPreset with any other valid id (stated for the calls on an open,
\* idle object, which write the command in the step of the call).
C19_PresetInCommandText ==
    [][\A c \in Calls :
          (/\ readyState = "open"
           /\ readyToSend
           /\ c[1] = "loadPreset"
           /\ validRange(c[2], 1, 1000)
           /\ CallOf(c))
          => /\ EventsOf("write")' # <<>>
             /\ Contains(EventsOf("write")'[1].data.s, Render(c[2]))
             /\ \A d \in Calls :
                   (d[1] = "loadPreset" /\ validRange(d[2], 1, 1000) /\ d[2] # c[2]) =>
                       EventsOf("write")'[1].data.s # Operation(d[1], d[2], d[3]).cmd.command]_vars

\* C20: nothing but the send queue persists across a connection drop: when
\* the socket is ready again after a close, the frame buffer is empty and
\* the in-flight slot is empty.
C20_OnlyQueueSurvivesDrop ==
    [][(nCloses > 0 /\ readyState = "opening" /\ readyState' = "open") =>
          /\ recvBuffer' = <<>>
          /\ nextResponse' = Undefined
          /\ nextCb' = NoCb]_vars

\* C21: a socket error or close event fails nothing: the step emits no
\* event and invokes no completion handler, and the send queue, the
\* in-flight slot and the armed no-response timer stay as they are.
C21_DropFailsNothing ==
    [][(SockError \/ nCloses' # nCloses) =>
          /\ emitted' = <<>>
          /\ UNCHANGED <<sendBuffer, nextResponse, nextCb, noResponse, timers, invoked,
                         readyToSend>>]_vars

\* the socket closed with a command in flight, its timer armed and another
\* command queued
C21_Witness ==
    /\ nCloses = 1
    /\ readyState = "closed"
    /\ nextCb # NoCb
    /\ timers = {nextCb}
    /\ sendBuffer # <<>>
    /\ emitted = <<>>

\* C22: between events the sequencer is idle (ready to send, nothing in
\* flight, the send queue empty) or awaiting a response (not ready to send,
\* the in-flight pattern and handler set).
C22_IdleOrAwaiting ==
    \/ (readyToSend /\ nextResponse = Undefined /\ nextCb = NoCb /\ sendBuffer = <<>>)
    \/ (~readyToSend /\ nextResponse # Undefined /\ nextCb # NoCb)

\* the response segment of a complete frame d in which the in-flight pattern
\* P is found: the bytes from the first match of P on
ResponseSegment(P, d) == SliceFrom(d, Search(d, P))

\* the chunks the socket can receive next from the devices of Frames
NextChunks ==
    UNION {{ChunkOf(msg, k) : k \in {e \in ChunkEnds(msg) : message = <<>> \/ e > delivered}} :
              msg \in (IF message = <<>> THEN Frames ELSE {message})}

\* C23: a step that consumes a response segment invokes the handler of the
\* in-flight command, once, with the parsed value of the segment, and
\* cancels its no-response timer; then the head of a non-empty send queue is
\* dequeued and dispatched in the same step (written, its timer armed, the
\* in-flight slot set to it, the sequencer still not ready to send); with an
\* empty queue the sequencer is idle: slot empty, no timer, ready to send.
C23_ResponseConsumed ==
    [][invoked' # invoked =>
          /\ nextCb # NoCb
          /\ invoked' = Append(invoked, nextCb)
          /\ \E chunk \in NextChunks :
                /\ chunk[Len(chunk)] = "\r"
                /\ Search(recvBuffer \o chunk, nextResponse) >= 0
                /\ EventsOf("cb")' =
                    <<Event("cb", nextCb,
                            ParseResponse(ResponseSegment(nextResponse, recvBuffer \o chunk),
                                          nextResponse))>>
          /\ IF sendBuffer # <<>>
             THEN /\ sendBuffer' = Tail(sendBuffer)
                  /\ written' = Append(written, Head(sendBuffer).cb)
                  /\ emitted'[Len(emitted')] =
                        Event("write", Head(sendBuffer).cb, ValString(Head(sendBuffer).command))
                  /\ nextResponse' = Head(sendBuffer).regex
                  /\ nextCb' = Head(sendBuffer).cb
                  /\ timers' = {Head(sendBuffer).cb}
                  /\ ~readyToSend'
             ELSE /\ sendBuffer' = <<>>
                  /\ written' = written
                  /\ nextResponse' = Undefined
                  /\ nextCb' = NoCb
                  /\ timers' = {}
                  /\ readyToSend']_vars

\* the reply of the first command was consumed and the queued second
\* command was dispatched in the same step
C23_Witness ==
    /\ invoked = <<1>>
    /\ written = <<1, 2>>
    /\ Len(emitted) = 2
    /\ emitted[1].ev = "cb"
    /\ emitted[2].ev = "write"
    /\ timers = {2}

\* C24: a submission on the idle sequencer is dispatched in that step: the
\* command is written, its no-response timer is armed and its pattern and
\* handler become the in-flight slot.  A submission while a response is
\* awaited only appends the command to the tail of the send queue: nothing
\* is written and the slot, the timers and the queued entries stay.
C24_SubmitDispatchesOrQueues ==
    [][\A c \in Tickets : (c = nSub + 1 /\ nSub' = c) =>
          IF readyToSend
          THEN /\ written' = Append(written, c)
               /\ \E i \in DOMAIN emitted' : emitted'[i].ev = "write" /\ emitted'[i].cb = c
               /\ timers' = timers \cup {c}
               /\ nextCb' = c
               /\ controlSet => nextResponse' = RespRegex("controlSet")
               /\ controlGet => nextResponse' = RespRegex("controlGet")
               /\ ~readyToSend'
               /\ sendBuffer' = sendBuffer
          ELSE /\ Len(sendBuffer') = Len(sendBuffer) + 1
               /\ SubSeq(sendBuffer', 1, Len(sendBuffer)) = sendBuffer
               /\ sendBuffer'[Len(sendBuffer')].cb = c
               /\ ~Emitted("write")'
               /\ UNCHANGED <<written, nextResponse, nextCb, noResponse, timers,
                              readyToSend>>]_vars

\* what one complete frame gives with pattern P and handler cb in flight
\* (P undefined for none): a push event for the bytes before the first match
\* of P (for the whole frame when P is not found), then the handler call for
\* the bytes from the first match on
FrameEvents(P, cb, frame) ==
    LET offsets == IF P = Undefined THEN {} ELSE MatchOffsets(P, frame)
    IN  IF offsets = {}
        THEN <<Event("push", NoCb, ValList(ParseMultiple(frame)))>>
        ELSE LET j == CHOOSE j \in offsets : \A i \in offsets : j <= i
             IN  (IF j = 0 THEN <<>>
                  ELSE <<Event("push", NoCb, ValList(ParseMultiple(SubSeq(frame, 1, j))))>>)
                 \o <<Event("cb", cb, ParseResponse(SubSeq(frame, j + 1, Len(frame)), P))>>

\* C25: a chunk that does not end with the terminator is appended to the
\* frame buffer and nothing else happens: no event, no handler call, the
\* in-flight slot, the timers and the send queue stay.  A chunk that ends
\* with the terminator is handed off with the buffered bytes in front of it
\* as one frame (the push event and handler call are those of that frame)
\* and the frame buffer is empty afterwards.
C25_ChunkBuffering ==
    [][(nSub' = nSub /\ timedOut' = timedOut) => \A msg \in Incoming : \A k \in ChunkEnds(msg) :
          Receive(msg, k) =>
              IF msg[k] # "\r"
              THEN /\ recvBuffer' = recvBuffer \o ChunkOf(msg, k)
                   /\ ~Emitted("push")'
                   /\ ~Emitted("cb")'
                   /\ UNCHANGED <<sendBuffer, nextResponse, nextCb, noResponse, timers,
                                  invoked, written>>
              ELSE /\ recvBuffer' = <<>>
                   /\ SelectSeq(emitted', LAMBDA e : e.ev \in {"push", "cb"}) =
                         FrameEvents(nextResponse, nextCb, recvBuffer \o ChunkOf(msg, k))]_vars

\* the header line of a block reply was handed off as a frame and consumed,
\* and the first byte of the record behind it is buffered
C25_Witness ==
    /\ message = fHEADER \o fPUSH \o fREC2
    /\ delivered = Len(fHEADER) + 1
    /\ recvBuffer = <<"#">>
    /\ invoked = <<1>>
    /\ emitted = <<>>

\* the positions of d at which a record '#ddddd=ddddd' starts
RecordStarts(d) == {i \in 1..Len(d) : RecordAt(d, i)}

\* the records of d as pairs, in the order of their positions
RecordsOf(d) ==
    [n \in 1..Cardinality(RecordStarts(d)) |->
        LET i == CHOOSE i \in RecordStarts(d) :
                     Cardinality({j \in RecordStarts(d) : j < i}) = n - 1
        IN  [id |-> ToNumber(SubSeq(d, i + 1, i + 5)),
             value |-> ToNumber(SubSeq(d, i + 7, i + 11))]]

\* the push segment of a complete frame with pattern P in flight (P
\* undefined for none): the bytes before the first match of P, the whole
\* frame when P is not found
PushSegment(P, frame) ==
    LET offsets == IF P = Undefined THEN {} ELSE MatchOffsets(P, frame)
    IN  IF offsets = {} THEN frame
        ELSE SubSeq(frame, 1, CHOOSE j \in offsets : \A i \in offsets : j <= i)

\* the positions in the events of the last step of the events of one kind
Positions(ev) == {i \in DOMAIN emitted : emitted[i].ev = ev}

\* C26: a complete frame produces at most one push event and at most one
\* handler invocation; the push event carries the records of the push
\* segment, all of them and in the order received (the empty list for a
\* segment without records); a push event of the frame comes before the
\* handler invocation, and both come before the dispatch of the next queued
\* command.
C26_OnePushOneHandler ==
    [][(nSub' = nSub /\ timedOut' = timedOut) => \A msg \in Incoming : \A k \in ChunkEnds(msg) :
          (msg[k] = "\r" /\ Receive(msg, k)) =>
              LET seg == PushSegment(nextResponse, recvBuffer \o ChunkOf(msg, k))
              IN  /\ Cardinality(Positions("push")') <= 1
                  /\ Cardinality(Positions("cb")') <= 1
                  /\ seg # <<>> => EventsOf("push")' =
                                       <<Event("push", NoCb, ValList(RecordsOf(seg)))>>
                  /\ \A i \in Positions("push")' : \A j \in Positions("cb")' : i < j
                  /\ \A i \in Positions("push")' \cup Positions("cb")' :
                        \A j \in Positions("write")' : i < j]_vars

\* one frame gave a push event with a record, then the handler call of the
\* in-flight command, then the dispatch of the queued command
C26_Witness ==
    /\ Len(emitted) = 3
    /\ emitted[1] = Event("push", NoCb, ValList(<<[id |-> 1, value |-> 42]>>))
    /\ emitted[2].ev = "cb"
    /\ emitted[3].ev = "write"

\* C27: a close event with retryTimeout > 0 schedules exactly one
\* reconnection and the reconnection is eventually attempted (timers fire:
\* FairSpec); with retryTimeout <= 0 a close schedules none and the socket
\* stays closed; every 'ready' of the socket, on the first connection and on
\* a reconnection, emits 'connected'.
C27_ReconnectAfterClose ==
    /\ [][/\ nCloses' # nCloses =>
                reconnects' = IF retryTimeout > 0 THEN reconnects + 1 ELSE reconnects
          /\ (readyState = "closed" /\ readyState' # "closed") =>
                (retryTimeout > 0 /\ readyState' = "opening" /\ reconnects' = reconnects - 1)
          /\ (readyState # "open" /\ readyState' = "open") =>
                emitted' = <<Event("connected", NoCb, ValUndefined)>>]_vars
    /\ (readyState = "closed" /\ retryTimeout > 0) ~> (readyState = "opening")
    /\ [](retryTimeout <= 0 => reconnects = 0)

\* the socket closed, the reconnection was made and the socket is ready
\* again: 'connected' was emitted for the second time
C27_Witness ==
    /\ nCloses = 1
    /\ retryTimeout > 0
    /\ reconnects = 0
    /\ readyState = "open"
    /\ emitted = <<Event("connected", NoCb, ValUndefined)>>

\* C28: in every reachable state the in-flight pattern and handler are both
\* set or both empty, the no-response timer that is armed is the timer of
\* the in-flight command and no timer is armed with nothing in flight; a
\* timer expiry abandons the command that is in flight, for which the timer
\* was armed, and no other.
C28_TimerIffInFlight ==
    /\ []((nextCb = NoCb) <=> (nextResponse = Undefined))
    /\ [](timers = IF nextCb = NoCb THEN {} ELSE {nextCb})
    /\ [][timedOut' # timedOut =>
             /\ nextCb # NoCb
             /\ timedOut' = timedOut \cup {nextCb}
             /\ nextCb \notin timers'
             /\ nextCb' # nextCb]_vars

\* the timer of the first command expired while the second was queued: the
\* second command is in flight with its own timer armed
C28_Witness ==
    /\ timedOut = {1}
    /\ nextCb = 2
    /\ timers = {2}
    /\ invoked = <<>>

\* C29: a reply is delivered only to the command that caused it: a step
\* that consumes the reply the device produced for command c invokes the
\* handler of c and of no other command, also when the reply arrives after
\* the no-response timer of c has fired and a later command is in flight.
C29_ReplyToItsCommand ==
    [][\A c \in Tickets :
          (message # <<>> /\ answered = c /\ invoked' # invoked) =>
              invoked' = Append(invoked, c)]_vars

\* the records of a complete frame that are no part of the reply to the
\* command in flight with pattern P: the records in front of the header
\* line of the block reply a block get awaits, every record otherwise
UnsolicitedRecords(P, frame) ==
    IF P = "block" /\ MatchOffsets(P, frame) # {}
    THEN RecordsOf(PushSegment(P, frame))
    ELSE RecordsOf(frame)

\* the records the push events of the last step carried
PushedRecords == IF EventsOf("push") = <<>> THEN <<>> ELSE EventsOf("push")[1].data.l

\* C30: no unsolicited push record is lost: the step that completes a frame
\* delivers in its push event every record of the frame that is no part of
\* the reply to the in-flight command, also the records behind the awaited
\* reply in the same chunk.
C30_NoPushRecordLost ==
    [][(message # <<>> /\ nSub' = nSub /\ timedOut' = timedOut) =>
          \A k \in ChunkEnds(message) :
              (/\ k > delivered
               /\ message[k] = "\r"
               /\ message' = IF k = Len(message) THEN <<>> ELSE message
               /\ delivered' = IF k = Len(message) THEN 0 ELSE k
               /\ SetState(OnData(State, ChunkOf(message, k)))) =>
                  PushedRecords' =
                      UnsolicitedRecords(nextResponse, recvBuffer \o ChunkOf(message, k))]_vars

\* C31: a command submitted through reqToSend from inside a completion
\* handler goes behind every command already queued: in that step the head
\* of the queue that was there is written and the new command is the last
\* entry of the queue, or, with nothing queued, the new command is the one
\* written; the step writes one command and arms one timer, and the
\* commands written stay in submission order.
C31_ReentrantSubmissionQueued ==
    /\ [][(nSub' = nSub + 1 /\ invoked' # invoked) =>
             /\ Cardinality(Positions("write")') = 1
             /\ timers' = {nextCb'}
             /\ IF sendBuffer # <<>>
                THEN /\ written' = Append(written, Head(sendBuffer).cb)
                     /\ nextCb' = Head(sendBuffer).cb
                     /\ Len(sendBuffer') = Len(sendBuffer)
                     /\ SubSeq(sendBuffer', 1, Len(sendBuffer) - 1) = Tail(sendBuffer)
                     /\ sendBuffer'[Len(sendBuffer')].cb = nSub + 1
                ELSE /\ written' = Append(written, nSub + 1)
                     /\ nextCb' = nSub + 1
                     /\ sendBuffer' = <<>>]_vars
    /\ [](\A i, j \in DOMAIN written : i < j => written[i] < written[j])

\* the handler of the first command submitted the third command while the
\* second was queued: the second is written and the third is queued
C31_Witness ==
    /\ nSub = 3
    /\ invoked = <<1>>
    /\ written = <<1, 2>>
    /\ Len(sendBuffer) = 1
    /\ sendBuffer[1].cb = 3
    /\ Len(emitted) >= 2
    /\ emitted[Len(emitted) - 1].ev = "cb"
    /\ emitted[Len(emitted)].ev = "write"

====
